---- MODULE Spec2Model ----
(***************************************************************************)
(* Model of news.py: the paginated, de-duplicating fetch                   *)
(* (fetch_news_paginated), the relevance score (article_relevance_score),  *)
(* the ranking (rank_and_format), the report writer (write_results) and    *)
(* the command-line driver (main).                                         *)
(*                                                                         *)
(* Strings that the code scans (title, snippet, company) are sequences of  *)
(* one-character strings.  Scores are held as integers in units of 1/24:   *)
(* one full-name match is 10.0 = 240 units, one token match is 5.0 = 120   *)
(* units and the recency bonus 0.0 .. 2.0 is 0 .. 48 units, which is exact *)
(* for ages that are whole hours.  Instants are whole hours.               *)
(***************************************************************************)
EXTENDS Integers, Sequences, FiniteSets, TLC

VARIABLES
    mode,               \* who drives the run: "main", "fetch" (a direct call
                        \* of fetch_news_paginated) or "report" (a direct call
                        \* of rank_and_format, then write_results)
    mainpc,             \* position of main
    printed,            \* messages printed so far
    company,            \* the company name
    limit,              \* fetch_news_paginated: limit
    page_size,          \* fetch_news_paginated: page_size
    max_pages_given,    \* the caller passed max_pages
    max_pages_arg,      \* max_pages as bound at the call (5 when not passed)
    max_pages,          \* max_pages after line 76
    sleep_between,      \* sleep_between is truthy
    progress_callback,  \* a progress_callback was passed
    results,            \* fetch_news_paginated: results
    seen_links,         \* fetch_news_paginated: seen_links
    page,               \* fetch_news_paginated: page
    pc,                 \* position of fetch_news_paginated
    requests,           \* number of calls of fetch_news made by this call
    failedPage,         \* page whose fetch_news call raised (0: none)
    pausePending,       \* time.sleep ran and no fetch_news call followed yet
    dup_skipped,        \* the `continue` of line 90 was taken
    progress,           \* arguments of the last progress_callback call
    articles,           \* rank_and_format: articles
    now,                \* the clock, in hours
    scored,             \* rank_and_format: scored
    recency_score,      \* article_relevance_score: recency_score (last call)
    rpc,                \* position of rank_and_format / write_results
    wlimit,             \* write_results: limit
    file,               \* content of out_path
    reported            \* the count printed by write_results

vars == <<mode, mainpc, printed, company, limit, page_size, max_pages_given,
          max_pages_arg, max_pages, sleep_between, progress_callback, results,
          seen_links, page, pc, requests, failedPage, pausePending,
          dup_skipped, progress, articles, now, scored, recency_score, rpc,
          wlimit, file, reported>>

fetchVars == <<limit, page_size, max_pages_given, max_pages_arg, max_pages,
               sleep_between, progress_callback, results, seen_links, page,
               pc, requests, failedPage, pausePending, dup_skipped, progress>>

reportVars == <<articles, scored, recency_score, rpc, wlimit, file, reported>>

(***************************************************************************)
(* Bounds of the model.                                                    *)
(***************************************************************************)
MaxLimit == 3
MaxPageSize == 2
MaxPagesArg == 3
MaxBatchLen == 2
MaxArticles == 3
MaxNow == 1

(***************************************************************************)
(* Constants of the program.                                               *)
(***************************************************************************)
DefaultMaxPages == 5
DefaultLimit == 10
MainMaxPages == 6
MainMinPageSize == 10
MainMaxPageSize == 50
RecencyWindow == 48

Min(a, b) == IF a < b THEN a ELSE b
Max(a, b) == IF a > b THEN a ELSE b

\* math.ceil(a / b) for b > 0
Ceil(a, b) == -((-a) \div b)

SeqsUpTo(S, n) == UNION {[1..k -> S] : k \in 0..n}

(***************************************************************************)
(* Articles.  A missing key and an empty value are both falsy in every     *)
(* access the code makes, so both are the empty value here.                *)
(***************************************************************************)
NoDate == [kind |-> "none", wall |-> 0, aware |-> FALSE, off |-> 0]
AgoDate == [kind |-> "ago", wall |-> 0, aware |-> FALSE, off |-> 0]
OtherDate == [kind |-> "other", wall |-> 0, aware |-> FALSE, off |-> 0]

\* ISO-8601 strings: a wall-clock hour, with no zone, with "Z"/"+00:00" or
\* with "+01:00".
Walls == {-49, -48, -24, -1, 0, 1, 2}
IsoDates ==
    {[kind |-> "iso", wall |-> w, aware |-> FALSE, off |-> 0] : w \in Walls}
    \cup {[kind |-> "iso", wall |-> w, aware |-> TRUE, off |-> o] :
              w \in Walls, o \in {0, 1}}
Dates == {NoDate, AgoDate, OtherDate} \cup IsoDates

Art(l, u, t, s, d) ==
    [link |-> l, url |-> u, title |-> t, snippet |-> s, date |-> d]

\* what the provider serves: the same link under `link` and under `url`,
\* a second link, and a record with no link at all
FetchArticles ==
    { Art("x", "", <<"A">>, <<>>, NoDate),
      Art("", "x", <<"a", " ", "b">>, <<>>, AgoDate),
      Art("y", "x", <<>>, <<"a">>, NoDate),
      Art("", "", <<"A">>, <<"a">>, OtherDate) }

Titles == {<<>>, <<"A">>, <<"a", " ", "b">>}
Snippets == {<<>>, <<"a">>}
ScoreArticles ==
    {Art("", "", t, s, d) : t \in Titles, s \in Snippets, d \in Dates}

\* articles with equal and with different scores
RankArticles ==
    { Art("", "", <<"A">>, <<>>, NoDate),
      Art("", "", <<>>, <<"a">>, NoDate),
      Art("", "", <<>>, <<>>, AgoDate),
      Art("", "", <<"a", " ", "b">>, <<>>, NoDate),
      Art("", "", <<>>, <<>>,
          [kind |-> "iso", wall |-> 0, aware |-> TRUE, off |-> 0]) }

Companies == {<<"A">>, <<"a", " ", "b">>}
Limits == -1..MaxLimit

\* the pages the provider can answer with: every short list, and a full
\* page of one record repeated
Batches(ps) ==
    SeqsUpTo(FetchArticles, MaxBatchLen)
    \cup {[i \in 1..ps |-> a] : a \in FetchArticles}

NoFile == [written |-> FALSE, empty |-> FALSE, blocks |-> <<>>]

(***************************************************************************)
(* Initial states.                                                         *)
(***************************************************************************)
InitIdle ==
    /\ printed = {}
    /\ results = <<>>
    /\ seen_links = {}
    /\ page = 1
    /\ max_pages = 0
    /\ requests = 0
    /\ failedPage = 0
    /\ pausePending = FALSE
    /\ dup_skipped = FALSE
    /\ progress = <<>>
    /\ scored = <<>>
    /\ recency_score = 0
    /\ file = NoFile
    /\ reported = 0

\* python news.py ...
InitMain ==
    /\ mode = "main"
    /\ mainpc = "start"
    /\ company = <<>>
    /\ limit = 0
    /\ page_size = 1
    /\ max_pages_given = TRUE
    /\ max_pages_arg = 0
    /\ sleep_between = FALSE
    /\ progress_callback = FALSE
    /\ pc = "idle"
    /\ articles = <<>>
    /\ now = 0
    /\ rpc = "idle"
    /\ wlimit = 0

\* fetch_news_paginated(company, api_key, limit, page_size[, max_pages],
\*                      sleep_between, progress_callback)
InitFetch ==
    /\ mode = "fetch"
    /\ mainpc = "none"
    /\ company = <<"A">>
    /\ limit \in Limits
    /\ page_size \in 1..MaxPageSize
    /\ max_pages_given \in BOOLEAN
    /\ max_pages_arg \in
           IF max_pages_given THEN 0..MaxPagesArg ELSE {DefaultMaxPages}
    /\ sleep_between \in BOOLEAN
    /\ progress_callback \in BOOLEAN
    /\ pc = "call"
    /\ articles = <<>>
    /\ now = 0
    /\ rpc = "idle"
    /\ wlimit = 0

\* rank_and_format(articles, company), then write_results(scored, limit)
InitReport ==
    /\ mode = "report"
    /\ mainpc = "none"
    /\ company \in Companies
    /\ limit = 0
    /\ page_size = 1
    /\ max_pages_given = TRUE
    /\ max_pages_arg = 0
    /\ sleep_between = FALSE
    /\ progress_callback = FALSE
    /\ pc = "idle"
    /\ articles \in SeqsUpTo(RankArticles, MaxArticles)
                        \cup {<<a>> : a \in ScoreArticles}
    /\ now \in 0..MaxNow
    /\ rpc = "rank"
    /\ wlimit \in Limits

Init == InitIdle /\ (InitMain \/ InitFetch \/ InitReport)

(***************************************************************************)
(* fetch_news_paginated                                                    *)
(***************************************************************************)
\* link = a.get("link") or a.get("url")
ResolvedLinkNoFallback(a) == a.link

ResolvedLink(a) == IF a.link # "" THEN a.link ELSE a.url

\* the for loop over one batch
RECURSIVE Accumulate(_, _, _, _, _)
Accumulate(res, seen, skipped, batch, lim) ==
    IF batch = <<>>
    THEN [results |-> res, seen |-> seen, skipped |-> skipped]
    ELSE LET a == Head(batch)
             link == ResolvedLink(a)
         IN  IF link # "" /\ link \in seen
             THEN Accumulate(res, seen, TRUE, Tail(batch), lim)
             ELSE LET res2 == Append(res, a)
                      seen2 == IF link # "" THEN seen \cup {link} ELSE seen
                  IN  IF Len(res2) >= lim
                      THEN [results |-> res2, seen |-> seen2,
                            skipped |-> skipped]
                      ELSE Accumulate(res2, seen2, skipped, Tail(batch), lim)

\* results = [], seen_links = set(), page = 1, max_pages = max_pages or ...
FetchCall ==
    /\ pc = "call"
    /\ results' = <<>>
    /\ seen_links' = {}
    /\ page' = 1
    /\ max_pages' = IF max_pages_arg # 0 THEN max_pages_arg
                    ELSE Ceil(limit, page_size) + 2
    /\ pc' = "loop"
    /\ UNCHANGED <<mode, mainpc, printed, company, limit, page_size,
                   max_pages_given, max_pages_arg, sleep_between,
                   progress_callback, requests, failedPage, pausePending,
                   dup_skipped, progress, now>>
    /\ UNCHANGED reportVars

WhileCond == Len(results) < limit /\ page <= max_pages

\* the while condition is false: return results
FetchReturn ==
    /\ pc = "loop"
    /\ ~WhileCond
    /\ pc' = "returned"
    /\ UNCHANGED <<mode, mainpc, printed, company, limit, page_size,
                   max_pages_given, max_pages_arg, max_pages, sleep_between,
                   progress_callback, results, seen_links, page, requests,
                   failedPage, pausePending, dup_skipped, progress, now>>
    /\ UNCHANGED reportVars

\* fetch_news raises, and the handler lets the exception escape
FetchRaisesPropagates ==
    /\ pc = "loop"
    /\ WhileCond
    /\ requests' = requests + 1
    /\ failedPage' = page
    /\ pausePending' = FALSE
    /\ pc' = "raised"
    /\ UNCHANGED <<mode, mainpc, printed, company, limit, page_size,
                   max_pages_given, max_pages_arg, max_pages, sleep_between,
                   progress_callback, results, seen_links, page, dup_skipped,
                   progress, now>>
    /\ UNCHANGED reportVars

\* fetch_news raises: except Exception: break
FetchRaises ==
    /\ pc = "loop"
    /\ WhileCond
    /\ requests' = requests + 1
    /\ failedPage' = page
    /\ pausePending' = FALSE
    /\ pc' = "returned"
    /\ UNCHANGED <<mode, mainpc, printed, company, limit, page_size,
                   max_pages_given, max_pages_arg, max_pages, sleep_between,
                   progress_callback, results, seen_links, page, dup_skipped,
                   progress, now>>
    /\ UNCHANGED reportVars

\* fetch_news returns an empty batch; the callback is called unguarded
FetchEmpty(cbRaises) ==
    /\ pc = "loop"
    /\ WhileCond
    /\ cbRaises => progress_callback
    /\ requests' = requests + 1
    /\ pausePending' = FALSE
    /\ progress' = IF progress_callback THEN <<page, Len(results)>>
                   ELSE progress
    /\ pc' = IF cbRaises THEN "raised" ELSE "returned"
    /\ UNCHANGED <<mode, mainpc, printed, company, limit, page_size,
                   max_pages_given, max_pages_arg, max_pages, sleep_between,
                   progress_callback, results, seen_links, page, failedPage,
                   dup_skipped, now>>
    /\ UNCHANGED reportVars

\* fetch_news returns a non-empty batch
FetchBatch(batch, cbRaises) ==
    /\ pc = "loop"
    /\ WhileCond
    /\ batch # <<>>
    /\ cbRaises => progress_callback
    /\ LET acc == Accumulate(results, seen_links, dup_skipped, batch, limit)
       IN  /\ results' = acc.results
           /\ seen_links' = acc.seen
           /\ dup_skipped' = acc.skipped
           /\ progress' = IF progress_callback
                          THEN <<page, Len(acc.results)>>
                          ELSE progress
    /\ requests' = requests + 1
    /\ pausePending' = FALSE
    /\ IF Len(batch) < page_size
       THEN /\ pc' = "returned"
            /\ page' = page
       ELSE /\ page' = page + 1
            /\ pc' = IF sleep_between THEN "sleep" ELSE "loop"
    /\ UNCHANGED <<mode, mainpc, printed, company, limit, page_size,
                   max_pages_given, max_pages_arg, max_pages, sleep_between,
                   progress_callback, failedPage, now>>
    /\ UNCHANGED reportVars

\* time.sleep(sleep_between)
Sleep ==
    /\ pc = "sleep"
    /\ pausePending' = TRUE
    /\ pc' = "loop"
    /\ UNCHANGED <<mode, mainpc, printed, company, limit, page_size,
                   max_pages_given, max_pages_arg, max_pages, sleep_between,
                   progress_callback, results, seen_links, page, requests,
                   failedPage, dup_skipped, progress, now>>
    /\ UNCHANGED reportVars

(***************************************************************************)
(* article_relevance_score                                                 *)
(***************************************************************************)
LowerChar(c) == IF c = "A" THEN "a" ELSE IF c = "B" THEN "b" ELSE c

\* str.lower
Lower(s) == [i \in 1..Len(s) |-> LowerChar(s[i])]

MatchAt(text, sub, i) ==
    /\ i + Len(sub) - 1 <= Len(text)
    /\ \A k \in 1..Len(sub) : text[i + k - 1] = sub[k]

RECURSIVE CountFrom(_, _, _)
CountFrom(text, sub, i) ==
    IF i + Len(sub) - 1 > Len(text) THEN 0
    ELSE IF MatchAt(text, sub, i) THEN 1 + CountFrom(text, sub, i + Len(sub))
    ELSE CountFrom(text, sub, i + 1)

\* str.count: non-overlapping occurrences, scanning from the left
Count(text, sub) ==
    IF sub = <<>> THEN Len(text) + 1 ELSE CountFrom(text, sub, 1)

RECURSIVE SplitFrom(_, _, _)
SplitFrom(s, i, cur) ==
    IF i > Len(s) THEN (IF cur = <<>> THEN <<>> ELSE <<cur>>)
    ELSE IF s[i] = " "
         THEN (IF cur = <<>> THEN SplitFrom(s, i + 1, <<>>)
               ELSE <<cur>> \o SplitFrom(s, i + 1, <<>>))
    ELSE SplitFrom(s, i + 1, Append(cur, s[i]))

\* str.split() on whitespace
Split(s) == SplitFrom(s, 1, <<>>)

RECURSIVE TokenCount(_, _)
TokenCount(text, toks) ==
    IF toks = <<>> THEN 0
    ELSE Count(text, Head(toks)) + TokenCount(text, Tail(toks))

\* freq, in units of 0.5
Freq(article, comp) ==
    LET text == Lower(article.title \o <<" ">> \o article.snippet)
        name == Lower(comp)
    IN  2 * Count(text, name) + TokenCount(text, Split(name))

\* datetime.fromisoformat(date_str.replace('Z', '+00:00'))
FromIsoFormat(d) ==
    IF d.kind = "iso"
    THEN [ok |-> TRUE, wall |-> d.wall, aware |-> d.aware, off |-> d.off]
    ELSE [ok |-> FALSE, wall |-> 0, aware |-> FALSE, off |-> 0]

\* the instant in UTC: a naive datetime is taken to be UTC already
dtastimezone(dt) == IF ~dt.aware THEN dt.wall ELSE dt.wall - dt.off

\* recency_score, in units of 1/24
RecencyScore(d, t) ==
    IF d.kind = "none" THEN 0
    ELSE LET dt == FromIsoFormat(d)
         IN  IF ~dt.ok
             THEN (IF d.kind = "ago" THEN 24 ELSE 0)
             ELSE LET hours == t - dtastimezone(dt)
                  IN  Max(0, RecencyWindow - Min(hours, RecencyWindow))

\* score = freq * 10.0 + recency_score, in units of 1/24
article_relevance_score(article, comp, t) ==
    Freq(article, comp) * 120 + RecencyScore(article.date, t)

(***************************************************************************)
(* rank_and_format                                                         *)
(***************************************************************************)
\* one iteration of `for a in articles`
ScoreArticle ==
    /\ rpc = "rank"
    /\ Len(scored) < Len(articles)
    /\ LET a == articles[Len(scored) + 1]
       IN  /\ recency_score' = RecencyScore(a.date, now)
           /\ scored' = Append(scored,
                               <<article_relevance_score(a, company, now), a>>)
    /\ UNCHANGED <<mode, mainpc, printed, company, articles, now, rpc, wlimit,
                   file, reported>>
    /\ UNCHANGED fetchVars

Reverse(s) == [i \in 1..Len(s) |-> s[Len(s) + 1 - i]]

\* insert e behind every entry whose key is not greater
InsertStable(s, e) ==
    LET later == {k \in 1..Len(s) : s[k][1] > e[1]}
        pos == IF later = {} THEN Len(s) + 1
               ELSE CHOOSE k \in later : \A j \in later : k <= j
    IN  SubSeq(s, 1, pos - 1) \o <<e>> \o SubSeq(s, pos, Len(s))

RECURSIVE StableSortAsc(_)
StableSortAsc(s) ==
    IF s = <<>> THEN <<>>
    ELSE InsertStable(StableSortAsc(SubSeq(s, 1, Len(s) - 1)), s[Len(s)])

\* a descending sort that reverses the stable ascending order
ListSortReverseUnstable(s) == Reverse(StableSortAsc(s))

\* list.sort(key=lambda s: s[0], reverse=True): the list is reversed, sorted
\* by the stable ascending sort, and reversed again
ListSortReverse(s) == Reverse(StableSortAsc(Reverse(s)))

\* scored.sort(...); return scored
SortScored ==
    /\ rpc = "rank"
    /\ Len(scored) = Len(articles)
    /\ scored' = ListSortReverse(scored)
    /\ rpc' = "ranked"
    /\ UNCHANGED <<mode, mainpc, printed, company, articles, now,
                   recency_score, wlimit, file, reported>>
    /\ UNCHANGED fetchVars

(***************************************************************************)
(* write_results                                                           *)
(***************************************************************************)
\* a slice that ignores its bound
PySliceAll(s, n) == s

\* s[:n], for a negative n too
PySlice(s, n) ==
    IF n >= 0 THEN SubSeq(s, 1, Min(n, Len(s)))
    ELSE SubSeq(s, 1, Max(0, Len(s) + n))

\* f"{score:.2f}": hundredths, an exact half rounded to the even digit
FormatScore(s) ==
    LET q == (s * 100) \div 24
        r == (s * 100) % 24
    IN  IF r > 12 \/ (r = 12 /\ q % 2 = 1) THEN q + 1 ELSE q

UnknownDate ==
    [kind |-> "(Unknown date)", wall |-> 0, aware |-> FALSE, off |-> 0]

\* the lines written for entry i
FormatBlock(i, score, art) ==
    [n |-> i,
     title |-> IF art.title # <<>> THEN art.title ELSE <<"(No title)">>,
     date |-> IF art.date.kind # "none" THEN art.date ELSE UnknownDate,
     link |-> IF art.link # "" THEN art.link
              ELSE IF art.url # "" THEN art.url ELSE "(No link)",
     snippet |-> art.snippet,
     score |-> FormatScore(score)]

WriteResults ==
    /\ rpc = "ranked"
    /\ LET top == PySlice(scored, wlimit)
       IN  file' = [written |-> TRUE,
                    empty |-> (scored = <<>>),
                    blocks |-> IF scored = <<>> THEN <<>>
                               ELSE [i \in 1..Len(top) |->
                                        FormatBlock(i, top[i][1], top[i][2])]]
    /\ reported' = Min(wlimit, Len(scored))
    /\ printed' = printed \cup {"Wrote top results"}
    /\ rpc' = "written"
    /\ mainpc' = IF mode = "main" THEN "done" ELSE mainpc
    /\ UNCHANGED <<mode, company, articles, now, scored, recency_score,
                   wlimit>>
    /\ UNCHANGED fetchVars

(***************************************************************************)
(* main                                                                    *)
(***************************************************************************)
\* the company and the count are read (argv or prompts), the key is looked
\* up (environment, then prompt), and fetch_news_paginated is called
MainStart(interactive, comp, lim, key) ==
    /\ mode = "main"
    /\ mainpc = "start"
    /\ IF interactive /\ comp = <<>>
       THEN /\ printed' = printed \cup {"No company provided. Exiting."}
            /\ mainpc' = "done"
            /\ UNCHANGED <<company, limit, page_size, max_pages_arg,
                           sleep_between, pc>>
       ELSE IF key = "none"
       THEN /\ printed' = printed \cup {"SERPAPI_KEY not found in environment.",
                                        "SerpApi key is required to run searches."}
            /\ mainpc' = "done"
            /\ UNCHANGED <<company, limit, page_size, max_pages_arg,
                           sleep_between, pc>>
       ELSE /\ printed' = IF key = "prompt"
                          THEN printed \cup {"SERPAPI_KEY not found in environment."}
                          ELSE printed
            /\ company' = comp
            /\ limit' = lim
            /\ page_size' = Min(MainMaxPageSize, Max(MainMinPageSize, lim))
            /\ max_pages_arg' = MainMaxPages
            /\ sleep_between' = TRUE
            /\ pc' = "call"
            /\ mainpc' = "fetching"
    /\ UNCHANGED <<mode, max_pages_given, max_pages, progress_callback,
                   results, seen_links, page, requests, failedPage,
                   pausePending, dup_skipped, progress, now>>
    /\ UNCHANGED reportVars

\* the try around the fetch: an exception is reported and main returns,
\* otherwise the articles are ranked and written with the same limit
MainAfterFetch ==
    /\ mode = "main"
    /\ mainpc = "fetching"
    /\ pc \in {"returned", "raised"}
    /\ IF pc = "raised"
       THEN /\ printed' = printed \cup {"Error fetching news"}
            /\ mainpc' = "done"
            /\ UNCHANGED <<articles, rpc, wlimit>>
       ELSE /\ articles' = results
            /\ rpc' = "rank"
            /\ wlimit' = limit
            /\ mainpc' = "reporting"
            /\ UNCHANGED printed
    /\ UNCHANGED <<mode, company, now, scored, recency_score, file, reported>>
    /\ UNCHANGED fetchVars

Next ==
    \/ \E interactive \in BOOLEAN, comp \in Companies \cup {<<>>},
          lim \in Limits \cup {DefaultLimit},
          key \in {"env", "prompt", "none"} :
          MainStart(interactive, comp, lim, key)
    \/ FetchCall
    \/ FetchRaises
    \/ \E cbRaises \in BOOLEAN : FetchEmpty(cbRaises)
    \/ \E batch \in Batches(page_size), cbRaises \in BOOLEAN :
          FetchBatch(batch, cbRaises)
    \/ Sleep
    \/ FetchReturn
    \/ MainAfterFetch
    \/ ScoreArticle
    \/ SortScored
    \/ WriteResults

Spec == Init /\ [][Next]_vars

(***************************************************************************)
(* Properties                                                              *)
(***************************************************************************)

\* C1: at every point of fetch_news_paginated, no two entries of results
\* have the same non-empty resolved link (link, else url).
C1_NoDuplicateLinks ==
    \A i, j \in 1..Len(results) :
        i < j =>
            LET ki == IF results[i].link # "" THEN results[i].link
                      ELSE results[i].url
                kj == IF results[j].link # "" THEN results[j].link
                      ELSE results[j].url
            IN  ki = "" \/ ki # kj

\* a second page was fetched, a duplicate was dropped and two entries kept
C1_Witness ==
    /\ pc = "returned"
    /\ dup_skipped
    /\ requests >= 2
    /\ Len(results) >= 2

\* C2: fetch_news_paginated returns at most limit entries and makes at most
\* max_pages calls of fetch_news.
C2_BoundedByLimitAndMaxPages ==
    /\ limit >= 0 => Len(results) <= limit
    /\ requests <= max_pages_arg

\* C3: when fetch_news raises on page k, no further request is made, the
\* call returns normally, and what it returns is what was accumulated
\* before page k (nothing when k = 1).
C3_FetchErrorReturnsAccumulated ==
    /\ [](failedPage = 1 => results = <<>>)
    /\ [][ /\ (failedPage = 0 /\ failedPage' # 0) =>
                  /\ failedPage' = page
                  /\ requests' = requests + 1
                  /\ results' = results
                  /\ pc' = "returned"
           /\ failedPage # 0 =>
                  /\ requests' = requests
                  /\ results' = results
                  /\ pc' = "returned" ]_vars

\* the fetch of page 2 raised and the call returned what page 1 gave
C3_Witness ==
    /\ failedPage = 2
    /\ requests = 2
    /\ pc = "returned"
    /\ Len(results) >= 1

\* C4: when the fetch fails in a run of main, a message is printed and no
\* file is written.
C4_FailedRunWritesNoFile ==
    (mode = "main" /\ failedPage # 0) =>
        /\ ~file.written
        /\ mainpc = "done" => "Error fetching news" \in printed

\* C5: an exception raised by the progress callback never reaches the
\* caller of fetch_news_paginated.
C5_CallbackErrorSwallowed == pc # "raised"

\* C6: rank_and_format returns one (score, article) pair per input article,
\* by score non-increasing, equal scores in input order.
C6_RankedStableDescending ==
    rpc \in {"ranked", "written"} =>
        LET n == Len(articles)
            S(k) == article_relevance_score(articles[k], company, now)
            Rank(k) == 1 + Cardinality({j \in 1..n :
                               S(j) > S(k) \/ (S(j) = S(k) /\ j < k)})
        IN  /\ Len(scored) = n
            /\ \A k \in 1..n : scored[Rank(k)] = <<S(k), articles[k]>>
            /\ \A i, j \in 1..n : i < j => scored[i][1] >= scored[j][1]

\* three articles, the last one moved to the front, the two others tied
C6_Witness ==
    /\ mode = "report"
    /\ rpc = "ranked"
    /\ Len(scored) = 3
    /\ scored[1][1] > scored[2][1]
    /\ scored[2][1] = scored[3][1]
    /\ scored[2][2] # scored[3][2]
    /\ scored[1][2] = articles[3]

\* C7 as stated: for every limit, write_results writes min(limit, total)
\* blocks, numbered from 1 and taken from the front, and reports the number
\* of blocks it wrote.
C7_WritesMinLimitTotal ==
    rpc = "written" =>
        /\ Len(file.blocks) = Min(wlimit, Len(scored))
        /\ \A i \in 1..Len(file.blocks) :
               file.blocks[i] = FormatBlock(i, scored[i][1], scored[i][2])
        /\ reported = Len(file.blocks)

\* C7 amended: the same for every limit that is not negative.
C7_WritesMinLimitTotalNonNegative ==
    (rpc = "written" /\ wlimit >= 0) =>
        /\ Len(file.blocks) = Min(wlimit, Len(scored))
        /\ \A i \in 1..Len(file.blocks) :
               file.blocks[i] = FormatBlock(i, scored[i][1], scored[i][2])
        /\ reported = Len(file.blocks)

\* two of three scored entries written
C7_Witness ==
    /\ rpc = "written"
    /\ wlimit = 2
    /\ Len(scored) = 3
    /\ Len(file.blocks) = 2
    /\ reported = 2

\* C8: for a parseable date the recency score is within 0.0 .. 2.0: 2.0 at
\* age 0, linear in between, 0.0 from 48 hours on, never above 2.0.
C8_RecencyWithinRange ==
    (rpc = "rank" /\ Len(scored) >= 1
        /\ articles[Len(scored)].date.kind = "iso") =>
        LET age == now - dtastimezone(FromIsoFormat(articles[Len(scored)].date))
        IN  /\ recency_score >= 0
            /\ recency_score <= 48
            /\ (age >= 0 /\ age <= 48) => recency_score = 48 - age
            /\ age >= 48 => recency_score = 0

\* C9: without max_pages, at most ceil(limit / page_size) + 2 requests.
C9_DefaultPageBound ==
    ~max_pages_given => requests <= Ceil(limit, page_size) + 2

\* C10: no pause after the last request of a call.
C10_NoPauseAfterLastRequest ==
    pc \in {"returned", "raised"} => ~pausePending

====
